---- MODULE Spec2Model ----
(***************************************************************************)
(* Crack-Time: the password analysis engine (src/calculator_module.py).    *)
(*                                                                         *)
(* Passwords and every other Python str are TLA+ strings; a character is a *)
(* string of length 1.  Python ints are unbounded, so they are kept as     *)
(* arbitrary-precision naturals (little-endian limbs in base 2^15); Python *)
(* floats are IEEE-754 doubles, kept as m * 2^e with a 53-bit m and        *)
(* rounded to nearest-even by every operation that rounds in the code.     *)
(***************************************************************************)
EXTENDS Integers, Sequences, FiniteSets, TLC

\* TLC evaluates the arguments of an operator only when they are first used.
\* Done(v) is TRUE and makes v a value where it stands, which keeps the
\* evaluation of nested applications shallow.  An intermediate result that is
\* used more than once is the argument of an operator of its own.
Done(v) == v = v

Max(a, b) == IF a >= b THEN a ELSE b
Min(a, b) == IF a <= b THEN a ELSE b

(***************************************************************************)
(* Python str operations.                                                  *)
(***************************************************************************)
CharAt(s, i) == SubSeq(s, i, i)

\* `sub in s`
Contains(s, sub) ==
    \E i \in 1..(Len(s) - Len(sub) + 1) : SubSeq(s, i, i + Len(sub) - 1) = sub

\* s.startswith(p) and s.endswith(p)
StartsWith(s, p) == Len(p) <= Len(s) /\ SubSeq(s, 1, Len(p)) = p
EndsWith(s, p) == Len(p) <= Len(s) /\ SubSeq(s, Len(s) - Len(p) + 1, Len(s)) = p

\* set(s)
CharSet(s) == {CharAt(s, i) : i \in 1..Len(s)}

AsciiLower == "abcdefghijklmnopqrstuvwxyz"
AsciiUpper == "ABCDEFGHIJKLMNOPQRSTUVWXYZ"
AsciiDigits == "0123456789"

\* The characters of the symbol class of lines 104 and 218.  The class holds 32
\* characters; the grave accent cannot be written in a TLA+ string, so the
\* model's inputs never hold it and the other 31 are listed.
SymbolClass == "!@#$%^&*()_+-=[]{};':\"\\|,.<>?/~"

LowerLetters == CharSet(AsciiLower)
UpperLetters == CharSet(AsciiUpper)
DigitChars == CharSet(AsciiDigits)
SymbolChars == CharSet(SymbolClass)

\* str.lower() of one character: A-Z and the non-ASCII capital of the inputs.
LowerChar(c) ==
    IF c \in UpperLetters
    THEN CharAt(AsciiLower, CHOOSE i \in 1..26 : CharAt(AsciiUpper, i) = c)
    ELSE IF c = "É" THEN "é" ELSE c

\* str.lower().  (Every recursion of this module halves its argument, so
\* that its depth stays logarithmic in the length of the input.)
RECURSIVE Lower(_)
Lower(s) ==
    IF Len(s) = 0 THEN ""
    ELSE IF Len(s) = 1 THEN LowerChar(s)
    ELSE Lower(SubSeq(s, 1, Len(s) \div 2)) \o Lower(SubSeq(s, Len(s) \div 2 + 1, Len(s)))

\* s.replace(old, new) for a one-character old
RECURSIVE Replace(_, _, _)
Replace(s, old, new) ==
    IF Len(s) = 0 THEN ""
    ELSE IF Len(s) = 1 THEN (IF s = old THEN new ELSE s)
    ELSE Replace(SubSeq(s, 1, Len(s) \div 2), old, new)
             \o Replace(SubSeq(s, Len(s) \div 2 + 1, Len(s)), old, new)

\* re.search(r'[...]', s) for a character class
SearchClass(class, s) == \E i \in 1..Len(s) : CharAt(s, i) \in class

(***************************************************************************)
(* Python int: arbitrary-precision naturals, little-endian limbs in base   *)
(* 2^15, no leading zero limb (0 is the empty sequence).                   *)
(***************************************************************************)
Base == 2^15

BigNorm(a) ==
    LET nz == {i \in 1..Len(a) : a[i] # 0}
    IN  IF nz = {} THEN <<>>
        ELSE SubSeq(a, 1, CHOOSE i \in nz : \A j \in nz : j <= i)

\* n < 2^31 as a big natural
BigFromInt(n) ==
    BigNorm(<<n % Base, (n \div Base) % Base, n \div (Base * Base)>>)

\* a[i..j] * k + c as j-i+1 limbs and a carry, for k <= 65535 and c < 2^31 - 2^30
RECURSIVE MulAddRange(_, _, _, _, _)
MulAddRange(a, i, j, k, c) ==
    IF i > j THEN [s |-> <<>>, c |-> c]
    ELSE IF i = j
    THEN LET v == a[i] * k + c IN [s |-> <<v % Base>>, c |-> v \div Base]
    ELSE LET h == (i + j) \div 2
             lo == MulAddRange(a, i, h, k, c)
             hi == MulAddRange(a, h + 1, j, k, lo.c)
         IN  CASE Done(lo) /\ Done(hi) -> [s |-> lo.s \o hi.s, c |-> hi.c]

\* The limbs and the carry r as one natural
WithCarry(r) == CASE Done(r) -> BigNorm(r.s \o BigFromInt(r.c))

BigMulAdd(a, k, c) ==
    CASE Done(a) /\ Done(c) -> WithCarry(MulAddRange(a, 1, Len(a), k, c))

BigMulSmall(a, k) == BigMulAdd(a, k, 0)
BigAddSmall(a, k) == BigMulAdd(a, 1, k)

\* (rem * Base^(j-i+1) + a[i..j]) divmod k, for rem < k <= 65536
RECURSIVE DivRange(_, _, _, _, _)
DivRange(a, i, j, k, rem) ==
    IF i > j THEN [q |-> <<>>, r |-> rem]
    ELSE IF i = j
    THEN LET cur == rem * Base + a[i] IN [q |-> <<cur \div k>>, r |-> cur % k]
    ELSE LET h == (i + j) \div 2
             hi == DivRange(a, h + 1, j, k, rem)
             lo == DivRange(a, i, h, k, hi.r)
         IN  CASE Done(hi) /\ Done(lo) -> [q |-> lo.q \o hi.q, r |-> lo.r]

QuotRem(d) == CASE Done(d) -> [q |-> BigNorm(d.q), r |-> d.r]

BigDivSmall(a, k) == CASE Done(a) -> QuotRem(DivRange(a, 1, Len(a), k, 0))

\* -1, 0, 1 as a < b, a = b, a > b
BigCmp(a, b) ==
    IF Len(a) < Len(b) THEN -1
    ELSE IF Len(a) > Len(b) THEN 1
    ELSE LET df == {i \in 1..Len(a) : a[i] # b[i]}
         IN  IF df = {} THEN 0
             ELSE LET t == CHOOSE i \in df : \A j \in df : j <= i
                  IN  IF a[t] < b[t] THEN -1 ELSE 1

Limb(a, i) == IF i <= Len(a) THEN a[i] ELSE 0

\* limbs i..j of a + b + c with the carry out (c is 0 or 1)
RECURSIVE AddRange(_, _, _, _, _)
AddRange(a, b, i, j, c) ==
    IF i > j THEN [s |-> <<>>, c |-> c]
    ELSE IF i = j
    THEN LET v == Limb(a, i) + Limb(b, i) + c IN [s |-> <<v % Base>>, c |-> v \div Base]
    ELSE LET h == (i + j) \div 2
             lo == AddRange(a, b, i, h, c)
             hi == AddRange(a, b, h + 1, j, lo.c)
         IN  CASE Done(lo) /\ Done(hi) -> [s |-> lo.s \o hi.s, c |-> hi.c]

BigAdd(a, b) ==
    CASE Done(a) /\ Done(b) -> WithCarry(AddRange(a, b, 1, Max(Len(a), Len(b)), 0))

\* limbs i..j of a - b - c with the borrow out (c is 0 or 1)
RECURSIVE SubRange(_, _, _, _, _)
SubRange(a, b, i, j, c) ==
    IF i > j THEN [s |-> <<>>, c |-> c]
    ELSE IF i = j
    THEN LET v == Limb(a, i) - Limb(b, i) - c
         IN  [s |-> <<v % Base>>, c |-> IF v < 0 THEN 1 ELSE 0]
    ELSE LET h == (i + j) \div 2
             lo == SubRange(a, b, i, h, c)
             hi == SubRange(a, b, h + 1, j, lo.c)
         IN  CASE Done(lo) /\ Done(hi) -> [s |-> lo.s \o hi.s, c |-> hi.c]

\* a - b, for a >= b
BigSub(a, b) ==
    CASE Done(a) /\ Done(b) -> BigNorm(SubRange(a, b, 1, Len(a), 0).s)

\* a * 2^n and floor(a / 2^n)
BigShl(a, n) ==
    IF a = <<>> THEN a
    ELSE [i \in 1..(n \div 15) |-> 0] \o BigMulSmall(a, 2^(n % 15))

BigShr(a, n) ==
    IF n \div 15 >= Len(a) THEN <<>>
    ELSE BigDivSmall(SubSeq(a, (n \div 15) + 1, Len(a)), 2^(n % 15)).q

\* bit n of a (bit 0 is the lowest); whether the n lowest bits are all 0
BigBit(a, n) ==
    IF n \div 15 >= Len(a) THEN 0 ELSE (a[(n \div 15) + 1] \div 2^(n % 15)) % 2

BigLowZero(a, n) ==
    /\ \A i \in 1..Min(n \div 15, Len(a)) : a[i] = 0
    /\ n \div 15 < Len(a) => a[(n \div 15) + 1] % 2^(n % 15) = 0

BitLenSmall(v) == IF v = 0 THEN 0 ELSE CHOOSE k \in 1..17 : 2^(k - 1) <= v /\ v < 2^k

\* int.bit_length()
BigBitLen(a) == IF a = <<>> THEN 0 ELSE 15 * (Len(a) - 1) + BitLenSmall(a[Len(a)])

\* the sum over j in i..k of a * b[j] * Base^(j-1)
RECURSIVE MulRange(_, _, _, _)
MulRange(a, b, i, k) ==
    IF i > k THEN <<>>
    ELSE IF i = k
    THEN (IF b[i] = 0 THEN <<>> ELSE [x \in 1..(i - 1) |-> 0] \o BigMulSmall(a, b[i]))
    ELSE LET lo == MulRange(a, b, i, (i + k) \div 2)
             hi == MulRange(a, b, (i + k) \div 2 + 1, k)
         IN  CASE Done(lo) /\ Done(hi) -> BigAdd(lo, hi)

BigMul(a, b) == IF a = <<>> THEN <<>> ELSE MulRange(a, b, 1, Len(b))

BigSquare(p) == CASE Done(p) -> BigMul(p, p)

\* a ** n from pp = (a ** (n div 2)) ** 2
PowFromSquare(pp, a, n) ==
    CASE Done(pp) -> IF n % 2 = 0 THEN pp ELSE BigMulSmall(pp, a)

\* a ** n for ints a < 2^15 and n >= 0 (0 ** 0 is 1)
RECURSIVE BigPow(_, _)
BigPow(a, n) ==
    IF n = 0 THEN <<1>>
    ELSE IF n = 1 THEN BigFromInt(a)
    ELSE PowFromSquare(BigSquare(BigPow(a, n \div 2)), a, n)

\* bits i..j of n (j the highest) divided by d, with rem the remainder carried
\* in from the bits above: the quotient bits and the remainder
\* One step of the long division: cur divmod d for cur < 2 * d
DivStep(cur, d) ==
    CASE Done(cur) ->
         IF BigCmp(cur, d) >= 0 THEN [q |-> <<1>>, r |-> BigSub(cur, d)]
         ELSE [q |-> <<>>, r |-> cur]

RECURSIVE DivBitsRange(_, _, _, _, _)
DivBitsRange(n, d, i, j, rem) ==
    IF i = j
    THEN DivStep(BigMulAdd(rem, 2, BigBit(n, i)), d)
    ELSE LET h == (i + j) \div 2
             hi == DivBitsRange(n, d, h + 1, j, rem)
             lo == DivBitsRange(n, d, i, h, hi.r)
         IN  CASE Done(hi) /\ Done(lo) ->
                  [q |-> BigAdd(BigShl(hi.q, h - i + 1), lo.q), r |-> lo.r]

\* n divmod d for big n and d > 0
BigDivMod(n, d) ==
    IF n = <<>> THEN [q |-> <<>>, r |-> <<>>]
    ELSE DivBitsRange(n, d, 0, BigBitLen(n) - 1, <<>>)

\* floor(a / 10^i)
RECURSIVE BigDivPow10(_, _)
BigDivPow10(a, i) ==
    IF i <= 4 THEN BigDivSmall(a, 10^i).q
    ELSE LET h == BigDivPow10(a, i \div 2)
         IN  IF h = <<>> THEN <<>> ELSE BigDivPow10(h, i - i \div 2)

\* four decimal digits of v < 10000
Pad4(v) ==
    ToString(v \div 1000) \o ToString((v \div 100) % 10)
        \o ToString((v \div 10) % 10) \o ToString(v % 10)

\* the groups i..j of four decimal digits of a (group 0 is the lowest), the
\* highest first
\* group i of four decimal digits of a
DigitGroup(a, i) == BigDivSmall(BigDivPow10(a, 4 * i), 10000).r

RECURSIVE DigitsRange(_, _, _)
DigitsRange(a, i, j) ==
    IF i = j THEN Pad4(DigitGroup(a, i))
    ELSE DigitsRange(a, (i + j) \div 2 + 1, j) \o DigitsRange(a, i, (i + j) \div 2)

\* str(a): the highest group without its leading zeros, then the other groups
\* (a has at most 1 + bit_length * log10(2) digits)
\* the highest group of a > 0 that is not 0, n being that group or the next
TopGroup(a, n) == IF BigDivPow10(a, 4 * n) = <<>> THEN n - 1 ELSE n

\* the groups g..0 of a, g being the highest
GroupsToStr(a, g) ==
    CASE Done(g) ->
         IF g = 0 THEN ToString(DigitGroup(a, 0))
         ELSE ToString(DigitGroup(a, g)) \o DigitsRange(a, 0, g - 1)

BigToStr(a) ==
    IF a = <<>> THEN "0"
    ELSE GroupsToStr(a, TopGroup(a, ((BigBitLen(a) * 30103) \div 100000) \div 4))

(***************************************************************************)
(* Python float: an IEEE-754 double.  A double is [m, e], standing for     *)
(* m * 2^e, with m of exactly 53 bits (0.0 is [<<>>, 0]).  None of the     *)
(* values of this program is negative, subnormal, infinite or a NaN.       *)
(***************************************************************************)
DblMantBits == 52 + 1
DblMaxExp == 2^10

DblZero == [m |-> <<>>, e |-> 0]

\* m * 2^e, exactly representable, in the form above
DblNorm(m, e) ==
    LET b == BigBitLen(m)
    IN  IF b = 0 THEN DblZero
        ELSE IF b <= DblMantBits
        THEN [m |-> BigShl(m, DblMantBits - b), e |-> e - (DblMantBits - b)]
        ELSE [m |-> BigShr(m, b - DblMantBits), e |-> e + (b - DblMantBits)]

\* t = floor(q / 2^sh), or t + 1: the integer nearest to (q + f) / 2^sh, ties
\* to even, where sh > 0, 0 <= f < 1 and sticky tells whether f > 0
NearestEven(q, sh, sticky, t) ==
    LET half == BigBit(q, sh - 1) = 1
        rest == sticky \/ ~BigLowZero(q, sh - 1)
        up == half /\ (rest \/ BigBit(t, 0) = 1)
    IN  CASE Done(t) -> IF up THEN BigAddSmall(t, 1) ELSE t

ShiftRound(q, sh, sticky) == NearestEven(q, sh, sticky, BigShr(q, sh))

\* The double nearest to (q + f) * 2^e, ties to even, where 0 <= f < 1 and
\* sticky tells whether f > 0; q has at least 55 bits when sticky.
DblRound(q, sticky, e) ==
    LET sh == BigBitLen(q) - DblMantBits
    IN  CASE Done(q) ->
             IF sh <= 0 THEN DblNorm(q, e)
             ELSE DblNorm(ShiftRound(q, sh, sticky), e + sh)

\* The correctly rounded quotient (n * 2^e) / d of big naturals n and d > 0
DblFromQuotRem(qr, e) == CASE Done(qr) -> DblRound(qr.q, qr.r # <<>>, e)

DblQuotient(n, e, d) ==
    LET s == Max(0, DblMantBits + 3 + BigBitLen(d) - BigBitLen(n))
    IN  CASE Done(n) /\ Done(d) ->
             IF n = <<>> THEN DblZero
             ELSE DblFromQuotRem(BigDivMod(BigShl(n, s), d), e - s)

\* float(n) of an int would overflow
DblOverflows(x) == x.m # <<>> /\ x.e + DblMantBits > DblMaxExp

\* int / int: the quotient, or the exception raised: OverflowError ("integer
\* division result too large for a float")
FloatOrOverflow(x) ==
    IF DblOverflows(x) THEN [raised |-> "OverflowError", value |-> DblZero]
    ELSE [raised |-> "", value |-> x]

IntTrueDiv(a, b) == FloatOrOverflow(DblQuotient(a, 0, b))

\* float / int and float / float
DblDivInt(x, d) == DblQuotient(x.m, x.e, d)
DblDiv(x, y) == DblQuotient(x.m, x.e - y.e, y.m)

\* float < int
DblLtInt(x, n) ==
    IF x.e >= 0 THEN BigCmp(BigShl(x.m, x.e), n) < 0
    ELSE BigCmp(x.m, BigShl(n, -x.e)) < 0

\* x < y
DblLt(x, y) ==
    IF y.m = <<>> THEN FALSE
    ELSE IF x.m = <<>> THEN TRUE
    ELSE x.e < y.e \/ (x.e = y.e /\ BigCmp(x.m, y.m) < 0)

\* The decimal literal p / 10^k as a double (30.44 is DblLit(3044, 2))
DblLit(p, k) == DblQuotient(BigFromInt(p), 0, BigPow(10, k))

\* round(10 * x) to an integer, ties to even: the digits of f"{x:.1f}"
RoundScaled(q, e) ==
    CASE Done(q) -> IF e >= 0 THEN BigShl(q, e) ELSE ShiftRound(q, -e, FALSE)

DblTenths(x) == CASE Done(x) -> RoundScaled(BigMulSmall(x.m, 10), x.e)

\* the tenths d = [q, r] as "q.r"
TenthsToStr(d) == CASE Done(d) -> BigToStr(d.q) \o "." \o ToString(d.r)

\* f"{x:.1f}"
FormatF1(x) == CASE Done(x) -> TenthsToStr(BigDivSmall(DblTenths(x), 10))

\* float * float
DblMul(x, y) ==
    CASE Done(x) /\ Done(y) -> DblRound(BigMul(x.m, y.m), FALSE, x.e + y.e)

\* float(n) for an int n < 2^31
DblFromInt(n) == DblNorm(BigFromInt(n), 0)

\* float >= int
DblGeInt(x, n) == ~DblLtInt(x, BigFromInt(n))

\* math.log2(n), as the platform's libm returns it, for the character set
\* sizes of this model: the sums of 26, 26, 10 and 32, and the small counts
\* of distinct characters of the fallback.
Log2(n) ==
    CASE n = 2 -> [m |-> <<0, 0, 0, 128>>, e |-> -52]
      [] n = 3 -> [m |-> <<15720, 18239, 28678, 202>>, e |-> -52]
      [] n = 4 -> [m |-> <<0, 0, 0, 128>>, e |-> -51]
      [] n = 5 -> [m |-> <<9073, 4851, 19772, 148>>, e |-> -51]
      [] n = 6 -> [m |-> <<24244, 9119, 14339, 165>>, e |-> -51]
      [] n = 7 -> [m |-> <<1069, 32424, 21977, 179>>, e |-> -51]
      [] n = 8 -> [m |-> <<0, 0, 0, 192>>, e |-> -51]
      [] n = 10 -> [m |-> <<9073, 4851, 19772, 212>>, e |-> -51]
      [] n = 26 -> [m |-> <<28953, 9105, 13568, 150>>, e |-> -50]
      [] n = 32 -> [m |-> <<0, 0, 0, 160>>, e |-> -50]
      [] n = 36 -> [m |-> <<24244, 9119, 14339, 165>>, e |-> -50]
      [] n = 42 -> [m |-> <<29041, 20771, 18158, 172>>, e |-> -50]
      [] n = 52 -> [m |-> <<28953, 9105, 13568, 182>>, e |-> -50]
      [] n = 58 -> [m |-> <<9819, 9173, 14922, 187>>, e |-> -50]
      [] n = 62 -> [m |-> <<19790, 11480, 17507, 190>>, e |-> -50]
      [] n = 68 -> [m |-> <<9292, 14294, 26175, 194>>, e |-> -50]
      [] n = 84 -> [m |-> <<29041, 20771, 18158, 204>>, e |-> -50]
      [] n = 94 -> [m |-> <<14850, 18341, 24472, 209>>, e |-> -50]

(***************************************************************************)
(* re.search for the patterns of this program.                             *)
(***************************************************************************)
RepeatPattern == "(.)\\1{2,}"

\* The alternatives of a pattern "(w1|w2|...)" of literal words
Alternatives(pattern) ==
    LET cut == {1, Len(pattern)} \cup {i \in 1..Len(pattern) : CharAt(pattern, i) = "|"}
    IN  {SubSeq(pattern, a + 1, b - 1) :
           <<a, b>> \in {ab \in cut \X cut :
                           /\ ab[1] < ab[2]
                           /\ \A c \in cut : ~(ab[1] < c /\ c < ab[2])}}

\* re.search(pattern, s): a character other than a newline three times in a
\* row, or one of the alternatives as a substring
ReSearch(pattern, s) ==
    IF pattern = RepeatPattern
    THEN \E i \in 1..(Len(s) - 2) :
            /\ CharAt(s, i) # "\n"
            /\ CharAt(s, i + 1) = CharAt(s, i)
            /\ CharAt(s, i + 2) = CharAt(s, i)
    ELSE \E w \in Alternatives(pattern) : Contains(s, w)

\* re.search(r'(19|20)\d{2}', s)  (\d: the ASCII digits, the only digits of
\* the model's inputs)
SearchYear(s) ==
    \E i \in 1..(Len(s) - 3) :
        /\ SubSeq(s, i, i + 1) \in {"19", "20"}
        /\ CharAt(s, i + 2) \in DigitChars
        /\ CharAt(s, i + 3) \in DigitChars

(***************************************************************************)
(* PasswordCalculator.  self is the record of the three tables that        *)
(* __init__ sets.                                                          *)
(***************************************************************************)
InitCommonPatterns ==
    << RepeatPattern,
       "(012|123|234|345|456|567|678|789)",
       "(abc|bcd|cde|def|efg|fgh|ghi|hij|ijk|jkl|klm|lmn|mno|nop|opq|pqr|qrs|rst|stu|tuv|uvw|vwx|wxy|xyz)",
       "(qwerty|asdf|zxcv)",
       "(password|admin|login|user|guest)" >>

InitWeakPasswords ==
    { "password", "password123", "123456", "qwerty", "admin", "letmein",
      "welcome", "monkey", "1234567890", "abc123", "password1", "admin123",
      "root", "toor", "pass", "12345678", "qwerty123", "Password1" }

\* The dict keeps its insertion order: a sequence of (key, value)
InitAttackSpeeds ==
    << [name |-> "slow", speed |-> BigPow(10, 3)],
       [name |-> "medium", speed |-> BigPow(10, 6)],
       [name |-> "fast", speed |-> BigPow(10, 9)],
       [name |-> "quantum", speed |-> BigPow(10, 12)] >>

\* A charset size without the distinct-character fallback
CharsetSizeOfClassesOnly(password) ==
    (IF SearchClass(LowerLetters, password) THEN 26 ELSE 0)
  + (IF SearchClass(UpperLetters, password) THEN 26 ELSE 0)
  + (IF SearchClass(DigitChars, password) THEN 10 ELSE 0)
  + (IF SearchClass(SymbolChars, password) THEN 32 ELSE 0)

CalculateCharsetSize(password) ==
    LET charset_size ==
            (IF SearchClass(LowerLetters, password) THEN 26 ELSE 0)
          + (IF SearchClass(UpperLetters, password) THEN 26 ELSE 0)
          + (IF SearchClass(DigitChars, password) THEN 10 ELSE 0)
          + (IF SearchClass(SymbolChars, password) THEN 32 ELSE 0)
    IN  IF charset_size = 0 THEN Cardinality(CharSet(password)) ELSE charset_size

AnalyzeCharacterTypes(password) ==
    [ has_lowercase |-> SearchClass(LowerLetters, password),
      has_uppercase |-> SearchClass(UpperLetters, password),
      has_digits |-> SearchClass(DigitChars, password),
      has_symbols |-> SearchClass(SymbolChars, password),
      has_spaces |-> Contains(password, " ") ]

\* The issue a matching pattern appends (lines 236-243), <<>> when none
PatternIssue(pattern) ==
    IF Contains(pattern, "repeated") \/ pattern = RepeatPattern
    THEN <<"repeated_characters">>
    ELSE IF \E seq \in {"012", "123", "abc"} : Contains(pattern, seq)
    THEN <<"sequential_characters">>
    ELSE IF \E kb \in {"qwerty", "asdf"} : Contains(pattern, kb)
    THEN <<"keyboard_pattern">>
    ELSE IF Contains(pattern, "password")
    THEN <<"common_words">>
    ELSE <<>>

\* The issues of patterns i..j, in the order of the list
RECURSIVE PatternIssues(_, _, _, _)
PatternIssues(patterns, lowered, i, j) ==
    IF i > j THEN <<>>
    ELSE IF i = j
    THEN (IF ReSearch(patterns[i], lowered) THEN PatternIssue(patterns[i]) ELSE <<>>)
    ELSE PatternIssues(patterns, lowered, i, (i + j) \div 2)
             \o PatternIssues(patterns, lowered, (i + j) \div 2 + 1, j)

\* A substitution applied to the password as typed, upper case kept
SimplifiedAsTyped(password) ==
    Replace(Replace(Replace(Replace(Replace(Replace(password,
        "@", "a"), "3", "e"), "1", "i"), "0", "o"), "5", "s"), "7", "t")

\* The substitutions dict, in its order, applied one after the other
Simplified(password) ==
    Replace(Replace(Replace(Replace(Replace(Replace(Lower(password),
        "@", "a"), "3", "e"), "1", "i"), "0", "o"), "5", "s"), "7", "t")

\* A _check_patterns without the test of lines 249-256
CheckPatternsAndYears(self, password) ==
    PatternIssues(self.common_patterns, Lower(password), 1, Len(self.common_patterns))
        \o (IF SearchYear(password) THEN <<"date_pattern">> ELSE <<>>)

CheckPatterns(self, password) ==
    PatternIssues(self.common_patterns, Lower(password), 1, Len(self.common_patterns))
        \o (IF SearchYear(password) THEN <<"date_pattern">> ELSE <<>>)
        \o (IF Simplified(password) \in self.weak_passwords
            THEN <<"simple_substitution">> ELSE <<>>)

\* A penalty factor that keeps only the stronger of the two penalties
PenaltyFactorStrongest(self, password) ==
    IF Lower(password) \in self.weak_passwords THEN DblLit(3, 1)
    ELSE IF CheckPatterns(self, password) # <<>> THEN DblLit(7, 1)
    ELSE DblFromInt(1)

\* lines 132-133 and 135-136: the two conditional multiplications
PatternPenalty(self, password, penalty_factor) ==
    IF CheckPatterns(self, password) # <<>>
    THEN DblMul(penalty_factor, DblLit(7, 1)) ELSE penalty_factor

WeakPenalty(self, password, penalty_factor) ==
    IF Lower(password) \in self.weak_passwords
    THEN DblMul(penalty_factor, DblLit(3, 1)) ELSE penalty_factor

PenaltyFactor(self, password) ==
    WeakPenalty(self, password, PatternPenalty(self, password, DblFromInt(1)))

\* An entropy of one bit a character for a charset of one character
CalculateEntropyBitPerChar(self, password) ==
    LET charset_size == CalculateCharsetSize(password)
    IN  IF charset_size <= 1 THEN DblFromInt(Len(password))
        ELSE DblMul(DblMul(DblFromInt(Len(password)), Log2(charset_size)),
                    PenaltyFactor(self, password))

CalculateEntropy(self, password) ==
    LET charset_size == CalculateCharsetSize(password)
    IN  IF charset_size <= 1 THEN DblZero
        ELSE DblMul(DblMul(DblFromInt(Len(password)), Log2(charset_size)),
                    PenaltyFactor(self, password))

PyInt(n) == BigFromInt(n)

\* A duration under a year always in days
FormatDaysOnly(days) == FormatF1(days) \o " days"

\* A duration under a year with weeks up to 30 days and months beyond
FormatDaysWithMonths(days) ==
    CASE Done(days) /\ DblLtInt(days, PyInt(7)) -> FormatF1(days) \o " days"
      [] DblLtInt(days, PyInt(30)) -> FormatF1(DblDivInt(days, PyInt(7))) \o " weeks"
      [] OTHER -> FormatF1(DblDiv(days, DblLit(3044, 2))) \o " months"

\* lines 183-190: a duration under a year, in days
FormatDays(days) ==
    CASE Done(days) /\ DblLtInt(days, PyInt(7)) -> FormatF1(days) \o " days"
      [] DblLtInt(days, PyInt(365)) -> FormatF1(DblDivInt(days, PyInt(7))) \o " weeks"
      [] OTHER -> FormatF1(DblDiv(days, DblLit(3044, 2))) \o " months"

\* lines 193-202: a duration of a year or more, in years
FormatYears(years) ==
    CASE Done(years) /\ DblLtInt(years, PyInt(1000)) -> FormatF1(years) \o " years"
      [] DblLtInt(years, PyInt(1000000)) ->
             FormatF1(DblDivInt(years, PyInt(1000))) \o " thousand years"
      [] DblLtInt(years, PyInt(1000000000)) ->
             FormatF1(DblDivInt(years, PyInt(1000000))) \o " million years"
      [] DblLtInt(years, BigPow(10, 12)) ->
             FormatF1(DblDivInt(years, PyInt(1000000000))) \o " billion years"
      [] OTHER ->
             FormatF1(DblDivInt(years, BigPow(10, 12))) \o " trillion years"

\* _format_time
FormatTime(seconds) ==
    CASE DblLtInt(seconds, PyInt(1)) -> "< 1 second"
      [] DblLtInt(seconds, PyInt(60)) -> FormatF1(seconds) \o " seconds"
      [] DblLtInt(seconds, PyInt(3600)) ->
             FormatF1(DblDivInt(seconds, PyInt(60))) \o " minutes"
      [] DblLtInt(seconds, PyInt(86400)) ->
             FormatF1(DblDivInt(seconds, PyInt(3600))) \o " hours"
      [] DblLtInt(seconds, PyInt(31536000)) ->
             FormatDays(DblDivInt(seconds, PyInt(86400)))
      [] OTHER -> FormatYears(DblDivInt(seconds, PyInt(31536000)))

\* total_combinations // 2
AvgAttempts(total_combinations) == BigDivSmall(total_combinations, 2).q

\* lines 155-157: the loop over the speeds, seconds[i] being the quotient of
\* the i-th division or the exception it raises.  The dict, or the exception
\* of the first division that raises.
CrackTimesLoop(self, seconds) ==
    LET n == Len(self.attack_speeds)
        bad == {i \in 1..n : seconds[i].raised # ""}
        names == {self.attack_speeds[i].name : i \in 1..n}
        last(name) == CHOOSE i \in 1..n :
                         /\ self.attack_speeds[i].name = name
                         /\ \A k \in 1..n : self.attack_speeds[k].name = name => k <= i
    IN  IF Done(seconds) /\ bad # {}
        THEN [raised |-> seconds[CHOOSE i \in bad : \A k \in bad : i <= k].raised,
              value |-> <<>>]
        ELSE [raised |-> "",
              value |-> [name \in names |-> FormatTime(seconds[last(name)].value)]]

CrackTimesOf(self, avg_attempts) ==
    CASE Done(avg_attempts) ->
         CrackTimesLoop(self, [i \in 1..Len(self.attack_speeds) |->
                                 IntTrueDiv(avg_attempts, self.attack_speeds[i].speed)])

\* _calculate_crack_times
CalculateCrackTimes(self, total_combinations) ==
    CrackTimesOf(self, AvgAttempts(total_combinations))

\* sum(char_types.values())
TypeCount(char_types) ==
    Cardinality({k \in DOMAIN char_types : char_types[k]})

\* A length score that is given at the thresholds only
LengthScoreAtThresholds(length) ==
    IF length = 16 THEN 30
    ELSE IF length = 12 THEN 25
    ELSE IF length = 8 THEN 15
    ELSE IF length = 6 THEN 10
    ELSE 5

\* A length score whose thresholds are passed only by a greater length
LengthScoreAbove(length) ==
    IF length > 16 THEN 30
    ELSE IF length > 12 THEN 25
    ELSE IF length > 8 THEN 15
    ELSE IF length > 6 THEN 10
    ELSE 5

LengthScore(length) ==
    IF length >= 16 THEN 30
    ELSE IF length >= 12 THEN 25
    ELSE IF length >= 8 THEN 15
    ELSE IF length >= 6 THEN 10
    ELSE 5

\* A diversity score whose thresholds are passed only by a greater count
DiversityScoreAbove(char_types) ==
    LET type_count == TypeCount(char_types)
    IN  IF type_count > 4 THEN 25
        ELSE IF type_count > 3 THEN 20
        ELSE IF type_count > 2 THEN 10
        ELSE 5

DiversityScore(char_types) ==
    LET type_count == TypeCount(char_types)
    IN  IF type_count >= 4 THEN 25
        ELSE IF type_count = 3 THEN 20
        ELSE IF type_count = 2 THEN 10
        ELSE 5

EntropyScore(entropy) ==
    IF DblGeInt(entropy, 60) THEN 25
    ELSE IF DblGeInt(entropy, 50) THEN 20
    ELSE IF DblGeInt(entropy, 40) THEN 15
    ELSE IF DblGeInt(entropy, 30) THEN 10
    ELSE 5

\* A penalty score that is not held at 0
PenaltyScoreBelowZero(is_common_password, pattern_issues) ==
    LET p1 == IF is_common_password THEN 20 - 15 ELSE 20
    IN  IF pattern_issues # <<>>
        THEN p1 - Min(Len(pattern_issues) * 3, 10) ELSE p1

PenaltyScore(is_common_password, pattern_issues) ==
    LET p1 == IF is_common_password THEN 20 - 15 ELSE 20
        p2 == IF pattern_issues # <<>>
              THEN p1 - Min(Len(pattern_issues) * 3, 10) ELSE p1
    IN  Max(p2, 0)

\* A score of two points a character, neither capped nor clamped
StrengthScoreUnclamped(password, analysis) ==
    analysis.length * 2
      + DiversityScore(analysis.character_types)
      + EntropyScore(analysis.entropy)
      + PenaltyScore(analysis.is_common_password, analysis.pattern_issues)

\* _calculate_strength_score
CalculateStrengthScore(password, analysis) ==
    Max(0, Min(100, LengthScore(analysis.length)
                      + DiversityScore(analysis.character_types)
                      + EntropyScore(analysis.entropy)
                      + PenaltyScore(analysis.is_common_password,
                                     analysis.pattern_issues)))

\* A power kept in a 64-bit unsigned integer
TotalCombinationsIn64Bits(charset_size, length) ==
    BigDivMod(BigPow(charset_size, length), BigPow(2, 64)).r

\* charset_size ** length, with Python's 0 ** 0 = 1
TotalCombinations(charset_size, length) == BigPow(charset_size, length)

\* lines 59-69: the dict literal
NewAnalysis(self, password) ==
    [ length |-> Len(password),
      charset_size |-> CalculateCharsetSize(password),
      entropy |-> CalculateEntropy(self, password),
      total_combinations |-> <<>>,
      crack_times |-> <<>>,
      strength_score |-> 0,
      character_types |-> AnalyzeCharacterTypes(password),
      pattern_issues |-> CheckPatterns(self, password),
      is_common_password |-> Lower(password) \in self.weak_passwords ]

\* line 72
SetTotalCombinations(analysis) ==
    CASE Done(analysis) ->
         [analysis EXCEPT !.total_combinations =
              TotalCombinations(analysis.charset_size, analysis.length)]

\* line 75, times being what _calculate_crack_times returns or raises
StoreCrackTimes(analysis, times) ==
    CASE Done(times) ->
         IF times.raised # "" THEN [raised |-> times.raised, value |-> <<>>]
         ELSE [raised |-> "", value |-> [analysis EXCEPT !.crack_times = times.value]]

SetCrackTimes(self, analysis) ==
    CASE Done(analysis) ->
         StoreCrackTimes(analysis, CalculateCrackTimes(self, analysis.total_combinations))

\* line 78, r being the dict so far or the exception raised
SetStrengthScore(password, r) ==
    CASE Done(r) ->
         IF r.raised # "" THEN r
         ELSE [raised |-> "",
               value |-> [r.value EXCEPT !.strength_score =
                              CalculateStrengthScore(password, r.value)]]

\* analyze_password: [raised, value], value being the dict returned when
\* nothing is raised
AnalyzePassword(self, password) ==
    SetStrengthScore(password,
        SetCrackTimes(self, SetTotalCombinations(NewAnalysis(self, password))))

(***************************************************************************)
(* PasswordSuggestions (src/suggestions_module.py).  A list of str is a    *)
(* sequence of strings.                                                    *)
(***************************************************************************)
\* x in list
InList(list, x) == \E i \in 1..Len(list) : list[i] = x

\* lines 241-263 of analyze_common_mistakes for a password that is not empty,
\* mistakes being the list so far
MistakesAfterEndings(password, mistakes) ==
    mistakes
      \o (IF DblLt(IntTrueDiv(BigFromInt(Cardinality(CharSet(password))),
                              BigFromInt(Len(password))).value,
                   DblLit(7, 1))
          THEN <<"Too many repeated characters">> ELSE <<>>)
      \o (IF Lower(password) \in {"qwerty123", "abc123", "123abc", "password1"}
          THEN <<"Extremely common weak password pattern">> ELSE <<>>)
      \o (IF \E transform \in { Replace(password, "a", "@"), Replace(password, "e", "3"),
                                 Replace(password, "i", "1"), Replace(password, "o", "0") } :
                 Lower(transform) \in {"p@ssword", "p4ssw0rd", "adm1n"}
          THEN <<"Simple character substitution is not secure">> ELSE <<>>)
      \o (IF \E year \in {"2020", "2021", "2022", "2023", "2024", "2025"} :
                 Contains(password, year)
          THEN <<"Avoid using current or recent years">> ELSE <<>>)

\* analyze_common_mistakes.  The division of line 241 is one of two ints, and
\* it raises ZeroDivisionError when len(password) is 0.
AnalyzeCommonMistakes(password) ==
    IF Len(password) = 0
    THEN [raised |-> "ZeroDivisionError", value |-> <<>>]
    ELSE [raised |-> "",
          value |->
              MistakesAfterEndings(password,
                  (IF \E word \in {"password", "admin", "user", "login"} :
                         StartsWith(Lower(password), word)
                   THEN <<"Starts with a common word - very predictable">> ELSE <<>>)
                    \o (IF \E ending \in {"123", "!", "."} : EndsWith(password, ending)
                        THEN <<"Predictable ending pattern">> ELSE <<>>))]

\* get_warnings
GetWarnings(password, analysis) ==
    LET used_types == TypeCount(analysis.character_types)
        medium_time == Lower(analysis.crack_times.medium)
    IN  (IF analysis.length < 8
         THEN <<"Password is dangerously short - minimum 8 characters required">>
         ELSE <<>>)
          \o (IF analysis.is_common_password
              THEN <<"This password appears in common password lists - change immediately!">>
              ELSE <<>>)
          \o (IF analysis.strength_score < 25
              THEN <<"CRITICAL: This password provides virtually no security">>
              ELSE IF analysis.strength_score < 50
              THEN <<"This password is easily crackable by modern tools">>
              ELSE <<>>)
          \o (IF used_types < 2
              THEN <<"Password uses only one type of character - extremely vulnerable">>
              ELSE IF used_types < 3
              THEN <<"Limited character variety makes this password weaker">>
              ELSE <<>>)
          \o (IF analysis.pattern_issues # <<>>
                   /\ InList(analysis.pattern_issues, "repeated_characters")
              THEN <<"Repeated characters make passwords predictable">>
              ELSE <<>>)
          \o (IF analysis.pattern_issues # <<>>
                   /\ InList(analysis.pattern_issues, "sequential_characters")
              THEN <<"Sequential patterns (123, abc) are easily guessed">>
              ELSE <<>>)
          \o (IF analysis.pattern_issues # <<>>
                   /\ InList(analysis.pattern_issues, "keyboard_pattern")
              THEN <<"Keyboard patterns are among the first things hackers try">>
              ELSE <<>>)
          \o (IF analysis.pattern_issues # <<>>
                   /\ InList(analysis.pattern_issues, "simple_substitution")
              THEN <<"Simple substitutions (@ for a) don't significantly improve security">>
              ELSE <<>>)
          \o (IF "medium" \in DOMAIN analysis.crack_times
                   /\ (Contains(medium_time, "second") \/ Contains(medium_time, "minute"))
              THEN <<"A dedicated attacker could crack this in " \o medium_time>>
              ELSE <<>>)

\* A get_suggestions whose general advice is given only with the advice for
\* a score under 75
GetSuggestionsForWeak(password, analysis) ==
    IF analysis.strength_score < 75
    THEN << "Consider using a passphrase (multiple words combined)",
            "Use a password manager to generate strong passwords",
            "Make this password unique - don't reuse it elsewhere",
            "Enable two-factor authentication for added security" >>
    ELSE <<>>

\* get_suggestions
GetSuggestions(password, analysis) ==
    (IF analysis.length < 12
     THEN <<"Increase length to at least 12 characters (currently "
              \o ToString(analysis.length) \o ")">>
     ELSE IF analysis.length < 16
     THEN <<"Consider extending to 16+ characters for maximum security">>
     ELSE <<>>)
      \o (IF ~analysis.character_types.has_uppercase
          THEN <<"Add uppercase letters (A, B, C, etc.)">> ELSE <<>>)
      \o (IF ~analysis.character_types.has_lowercase
          THEN <<"Add lowercase letters (a, b, c, etc.)">> ELSE <<>>)
      \o (IF ~analysis.character_types.has_digits
          THEN <<"Include numbers (0-9)">> ELSE <<>>)
      \o (IF ~analysis.character_types.has_symbols
          THEN <<"Add special characters (!@#$%^&* etc.)">> ELSE <<>>)
      \o (IF DblLtInt(analysis.entropy, PyInt(50))
          THEN <<"Increase randomness - avoid predictable patterns">> ELSE <<>>)
      \o (IF analysis.pattern_issues # <<>>
          THEN <<"Remove predictable patterns and sequences">> ELSE <<>>)
      \o (IF analysis.strength_score < 75
          THEN << "Consider using a passphrase (multiple words combined)",
                  "Use a password manager to generate strong passwords" >>
          ELSE <<>>)
      \o << "Make this password unique - don't reuse it elsewhere",
            "Enable two-factor authentication for added security" >>

\* lines 354-361: what one suggestion adds to the projected score
ImpactOfSuggestion(suggestion) ==
    IF Contains(Lower(suggestion), "increase length") THEN 15
    ELSE IF Contains(Lower(suggestion), "character") THEN 10
    ELSE IF Contains(Lower(suggestion), "pattern") THEN 8
    ELSE IF Contains(Lower(suggestion), "unique") THEN 5
    ELSE 0

\* lines 353-361: the loop, from suggestion i on
RECURSIVE ProjectedScore(_, _, _)
ProjectedScore(projected_score, suggested_changes, i) ==
    IF i > Len(suggested_changes) THEN projected_score
    ELSE ProjectedScore(projected_score + ImpactOfSuggestion(suggested_changes[i]),
                        suggested_changes, i + 1)

\* lines 364-377: the dict for a strength increase
ImpactOf(strength_increase) ==
    [ strength_increase |-> strength_increase,
      time_improvement |->
          IF strength_increase > 30 THEN "Years to centuries"
          ELSE IF strength_increase > 20 THEN "Months to years"
          ELSE IF strength_increase > 10 THEN "Days to weeks"
          ELSE "No change",
      risk_reduction |->
          IF strength_increase > 30 THEN "High"
          ELSE IF strength_increase > 10 THEN "Medium"
          ELSE "Low" ]

\* calculate_improvement_impact
CalculateImprovementImpact(current_analysis, suggested_changes) ==
    ImpactOf(Min(100, ProjectedScore(current_analysis.strength_score,
                                     suggested_changes, 1))
               - current_analysis.strength_score)

(***************************************************************************)
(* The inputs.                                                             *)
(***************************************************************************)
MaxLen == 3
LongRepeats == 40

Alphabet == {"a", "A", "1", "@", "é"}

\* The strings of n characters of the alphabet
RECURSIVE Strings(_)
Strings(n) ==
    IF n = 0 THEN {""} ELSE {s \o c : s \in Strings(n - 1), c \in Alphabet}

\* s * n
RECURSIVE Repeat(_, _)
Repeat(s, n) ==
    IF n = 0 THEN ""
    ELSE IF n = 1 THEN s
    ELSE Repeat(s, n \div 2) \o Repeat(s, n - n \div 2)

LongPassword == Repeat("aA1!", LongRepeats)

NamedPasswords ==
    { "password", "Password1", "PASSWORD", "abc123", "p@ssw0rd", "qwerty",
      "1999abc", "x2024", "adm1n", "R00T", "12345678", "123abc", "aaa111",
      "   ", "a1!A ", "ÉÉÉ", "ééé", "é É", "zxcv!", "letmein", "Tr0ub4dor&3Zz9!",
      "Xq7#mK9$vL2@pR5!wZ", "Coffee@Morning#Walk2024", "Xq7mK9vL2pR5wZ", "aA1 ",
      "LetMeIn", "l3tm31n", "m0nk3y", "P@55W0RD", "pa55", "700r", "7007",
      "w3lc0m3", "p@ssword123", "Adm1n123", "qw3r7y",
      "correct horse battery staple", LongPassword }

\* Strings over the alphabet, the named passwords and the weak passwords
\* themselves
Passwords ==
    UNION {Strings(n) : n \in 0..MaxLen} \cup NamedPasswords \cup InitWeakPasswords

\* The passwords of a caller that calls again and again
MaxCalls == 3
CallPasswords == {"", "a", "Aa1!", "password", "abc123", "Tr0ub4dor&3Zz9!", LongPassword}

\* What the user types at the menu and at the password prompt
Choices == {"1", "2", "3", "4", "", "9"}
TypedPasswords == {"", " ", "a", "password", "Aa1!", "Tr0ub4dor&3Zz9!", LongPassword}

\* Pairs of a password and a longer one that starts with it, both cut from a
\* repeated template
MaxPairLen == 17
Templates == {"a", "aA1!", "a 1", "é"}

LengthPairs ==
    { <<SubSeq(Repeat(t, MaxPairLen), 1, n), SubSeq(Repeat(t, MaxPairLen), 1, m)>> :
        t \in Templates, n \in 1..MaxPairLen, m \in 1..MaxPairLen }

\* The passwords of the parallel callers
ThreadPasswords == {"password", "abc123", "Aa1!"}
Threads == {1, 2}

\* The arguments of _calculate_crack_times: m * 10^z and m * 10^z + 1
MaxMantissa == 9
MaxZeros == 12

Totals ==
    { BigAddSmall(BigMulSmall(BigPow(10, z), m), d) :
        m \in 1..MaxMantissa, z \in 0..MaxZeros, d \in {0, 1} }

\* The arguments of _format_time: the values at which the unit changes, their
\* small multiples, the doubles next to each of them, and the tenths
MaxMultiple == 3
MaxTenths == 30

UnitChanges ==
    {PyInt(n) : n \in {1, 60, 3600, 86400, 604800, 31536000}}
      \cup {BigMul(PyInt(31536000), BigPow(10, k)) : k \in {3, 6, 9, 12}}

\* The double that is d units in the last place away from n > 0, an integer
\* that is a double
Near(n, d) ==
    LET j == DblMantBits - BigBitLen(n)
        m == IF j >= 0 THEN BigShl(n, j) ELSE BigShr(n, -j)
    IN  DblNorm(IF d < 0 THEN BigSub(m, <<1>>) ELSE BigAddSmall(m, d), -j)

Durations ==
    {Near(BigMulSmall(n, k), d) : n \in UnitChanges, k \in 1..MaxMultiple, d \in {-1, 0, 1}}
      \cup {DblLit(k, 1) : k \in 0..MaxTenths}
      \cup {DblLit(599, 1), DblFromInt(3599), DblFromInt(86399)}

(***************************************************************************)
(* The calculator as a state machine: the three tables of the instance,    *)
(* and its callers.  pc, password and outcome are those of a caller that   *)
(* passes a password to analyze_password and gets a dict back or sees an   *)
(* exception; argument is the argument of a helper method that is called   *)
(* on its own; threads holds the callers that run analyze_password in      *)
(* parallel on the one instance; calls counts the calls of                 *)
(* analyze_password that have ended.  warnings and suggestions are the     *)
(* lists that the application last got from get_warnings and               *)
(* get_suggestions, and printed holds the status lines ([INFO], [ERROR]    *)
(* and the like) that it has printed since it last cleared the screen;     *)
(* impact is the dict that calculate_improvement_impact last returned.     *)
(***************************************************************************)
VARIABLES common_patterns, weak_passwords, attack_speeds,
          pc, password, outcome, argument, threads, calls,
          warnings, suggestions, printed, impact

vars == <<common_patterns, weak_passwords, attack_speeds,
          pc, password, outcome, argument, threads, calls,
          warnings, suggestions, printed, impact>>

tables == <<common_patterns, weak_passwords, attack_speeds>>

shown == <<warnings, suggestions, printed, impact>>

NothingShown ==
    /\ warnings = <<>>
    /\ suggestions = <<>>
    /\ printed = <<>>
    /\ impact = <<>>

Self ==
    [ common_patterns |-> common_patterns,
      weak_passwords |-> weak_passwords,
      attack_speeds |-> attack_speeds ]

NoOutcome == [raised |-> "", value |-> <<>>]

\* PasswordCalculator()
NewCalculator ==
    /\ common_patterns = InitCommonPatterns
    /\ weak_passwords = InitWeakPasswords
    /\ attack_speeds = InitAttackSpeeds

NewSelf ==
    [ common_patterns |-> InitCommonPatterns,
      weak_passwords |-> InitWeakPasswords,
      attack_speeds |-> InitAttackSpeeds ]

(***************************************************************************)
(* One call of analyze_password.                                           *)
(***************************************************************************)
Init ==
    /\ NewCalculator
    /\ pc = "call"
    /\ password \in Passwords
    /\ outcome = NoOutcome
    /\ argument = <<>>
    /\ threads = <<>>
    /\ calls = 0
    /\ NothingShown

\* An analyze_password that adds the password it is given to the weak ones
analyze_and_learn ==
    /\ pc = "call"
    /\ outcome' = AnalyzePassword(Self, password)
    /\ pc' = IF outcome'.raised = "" THEN "return" ELSE "raise"
    /\ weak_passwords' = weak_passwords \cup {Lower(password)}
    /\ calls' = calls + 1
    /\ UNCHANGED <<common_patterns, attack_speeds, password, argument, threads, shown>>

\* calculator.analyze_password(password)
analyze_password ==
    /\ pc = "call"
    /\ outcome' = AnalyzePassword(Self, password)
    /\ pc' = IF outcome'.raised = "" THEN "return" ELSE "raise"
    /\ calls' = calls + 1
    /\ UNCHANGED <<tables, password, argument, threads, shown>>

Next == analyze_password

Spec == Init /\ [][Next]_vars

Returned == pc = "return"

(***************************************************************************)
(* CrackTime.analyze_password of src/brutemeter_main.py: the application   *)
(* has the password analyzed (line 110) and then asks for the warnings and *)
(* the suggestions (line 122).                                             *)
(***************************************************************************)
\* A show_security_warnings that lists the warning of the last check first
show_last_warning_first ==
    /\ pc = "return"
    /\ warnings' = [i \in 1..Len(GetWarnings(password, outcome.value)) |->
                      GetWarnings(password, outcome.value)
                          [Len(GetWarnings(password, outcome.value)) + 1 - i]]
    /\ suggestions' = GetSuggestions(password, outcome.value)
    /\ pc' = "shown"
    /\ UNCHANGED <<tables, password, outcome, argument, threads, calls, printed, impact>>

\* CrackTime.show_security_warnings(password, analysis)
show_security_warnings ==
    /\ pc = "return"
    /\ warnings' = GetWarnings(password, outcome.value)
    /\ suggestions' = GetSuggestions(password, outcome.value)
    /\ pc' = "shown"
    /\ UNCHANGED <<tables, password, outcome, argument, threads, calls, printed, impact>>

NextAdvise == analyze_password \/ show_security_warnings

SpecAdvise == Init /\ [][NextAdvise]_vars

(***************************************************************************)
(* The advisor called on the record of a password, any of its methods any  *)
(* number of times in any order.  Python passes the dict and the list by   *)
(* reference: outcome.value is the dict and suggestions the list that the  *)
(* caller holds, after whatever the calls did to them.  argument is the    *)
(* list that calculate_improvement_impact was last given.                  *)
(***************************************************************************)
\* suggestions.get_warnings(password, analysis)
get_warnings ==
    /\ pc = "return"
    /\ warnings' = GetWarnings(password, outcome.value)
    /\ UNCHANGED <<tables, pc, password, outcome, argument, threads, calls,
                   suggestions, printed, impact>>

\* suggestions.get_suggestions(password, analysis)
get_suggestions ==
    /\ pc = "return"
    /\ suggestions' = GetSuggestions(password, outcome.value)
    /\ UNCHANGED <<tables, pc, password, outcome, argument, threads, calls,
                   warnings, printed, impact>>

\* A calculate_improvement_impact that stores the projected score in the
\* dict it is given
calculate_and_store_projection ==
    /\ pc = "return"
    /\ impact' = CalculateImprovementImpact(outcome.value, suggestions)
    /\ argument' = suggestions
    /\ outcome' = [outcome EXCEPT !.value.strength_score =
                       @ + impact'.strength_increase]
    /\ UNCHANGED <<tables, pc, password, threads, calls,
                   warnings, suggestions, printed>>

\* suggestions.calculate_improvement_impact(analysis, suggestions), the list
\* being the one that the caller holds
calculate_improvement_impact ==
    /\ pc = "return"
    /\ impact' = CalculateImprovementImpact(outcome.value, suggestions)
    /\ argument' = suggestions
    /\ UNCHANGED <<tables, pc, password, outcome, threads, calls,
                   warnings, suggestions, printed>>

NextAdvisor ==
    \/ analyze_password
    \/ get_warnings
    \/ get_suggestions
    \/ calculate_improvement_impact

SpecAdvisor == Init /\ [][NextAdvisor]_vars

(***************************************************************************)
(* The interactive application (CrackTime.run of src/brutemeter_main.py):  *)
(* the menu loop, the password prompt, the analysis and its advice.        *)
(* password is what the user typed last at the prompt.  The user starts    *)
(* an analysis while fewer than MaxCalls of them have been made.           *)
(***************************************************************************)
InitFlow ==
    /\ NewCalculator
    /\ pc = "main_menu"
    /\ password = ""
    /\ outcome = NoOutcome
    /\ argument = <<>>
    /\ threads = <<>>
    /\ calls = 0
    /\ NothingShown

\* One turn of the loop of main_menu, lines 266-294
main_menu ==
    /\ pc = "main_menu"
    /\ \E choice \in Choices :
           /\ choice = "1" => calls < MaxCalls
           /\ pc' = CASE choice = "1" -> "get_user_password"
                      [] choice \in {"2", "3"} -> "press_enter"
                      [] choice = "4" -> "exit"
                      [] OTHER -> "main_menu"
           /\ printed' = IF choice \in {"1", "2", "3", "4"} THEN <<>>
                         ELSE <<"Invalid option! Please try again.">>
    /\ UNCHANGED <<tables, password, outcome, argument, threads, calls,
                   warnings, suggestions, impact>>

\* A get_user_password that returns what was typed, empty or not
get_any_password ==
    /\ pc = "get_user_password"
    /\ password' \in TypedPasswords
    /\ printed' = <<"[INFO] Analyzing password security...">>
    /\ pc' = "call"
    /\ UNCHANGED <<tables, outcome, argument, threads, calls, warnings, suggestions, impact>>

\* get_user_password (lines 85-98) and what password_analysis_flow does with
\* its result (lines 298-301)
get_user_password ==
    /\ pc = "get_user_password"
    /\ password' \in TypedPasswords
    /\ IF password' = ""
       THEN /\ printed' = <<"[ERROR] Password cannot be empty!">>
            /\ pc' = "main_menu"
       ELSE /\ printed' = <<"[INFO] Analyzing password security...">>
            /\ pc' = "call"
    /\ UNCHANGED <<tables, outcome, argument, threads, calls, warnings, suggestions, impact>>

\* lines 305-306 of password_analysis_flow
analysis_complete ==
    /\ pc = "shown"
    /\ printed' = Append(printed, "Analysis complete!")
    /\ pc' = "press_enter"
    /\ UNCHANGED <<tables, password, outcome, argument, threads, calls,
                   warnings, suggestions, impact>>

\* The user presses Enter and the menu comes back
press_enter ==
    /\ pc = "press_enter"
    /\ pc' = "main_menu"
    /\ UNCHANGED <<tables, password, outcome, argument, threads, calls, shown>>

\* lines 347-349 of run: an exception ends the application
unexpected_error ==
    /\ pc = "raise"
    /\ printed' = Append(printed, "[ERROR] An unexpected error occurred: "
                                     \o outcome.raised)
    /\ pc' = "exit"
    /\ UNCHANGED <<tables, password, outcome, argument, threads, calls,
                   warnings, suggestions, impact>>

NextFlow ==
    \/ main_menu
    \/ get_user_password
    \/ analyze_password
    \/ show_security_warnings
    \/ analysis_complete
    \/ press_enter
    \/ unexpected_error

SpecFlow == InitFlow /\ [][NextFlow]_vars

(***************************************************************************)
(* The length scoring of _calculate_strength_score (lines 273-284) for the *)
(* records of two passwords.                                               *)
(***************************************************************************)
InitLengthScore ==
    /\ NewCalculator
    /\ pc = "call"
    /\ password = ""
    /\ outcome = NoOutcome
    /\ argument \in LengthPairs
    /\ threads = <<>>
    /\ calls = 0
    /\ NothingShown

\* The length (line 60), the character types (line 66) and the length score
\* (lines 274-284) of each password of the pair
length_scores ==
    /\ pc = "call"
    /\ outcome' = [raised |-> "",
                   value |-> [i \in 1..2 |->
                                [ length |-> Len(argument[i]),
                                  character_types |-> AnalyzeCharacterTypes(argument[i]),
                                  length_score |-> LengthScore(Len(argument[i])) ]]]
    /\ pc' = "return"
    /\ UNCHANGED <<tables, password, argument, threads, calls, shown>>

SpecLengthScore == InitLengthScore /\ [][length_scores]_vars

(***************************************************************************)
(* analyze_common_mistakes called on a password.                           *)
(***************************************************************************)
\* suggestions.analyze_common_mistakes(password)
analyze_common_mistakes ==
    /\ pc = "call"
    /\ outcome' = AnalyzeCommonMistakes(password)
    /\ pc' = IF outcome'.raised = "" THEN "return" ELSE "raise"
    /\ UNCHANGED <<tables, password, argument, threads, calls, shown>>

SpecMistakes == Init /\ [][analyze_common_mistakes]_vars

(***************************************************************************)
(* generate_example_passwords(argument), statement by statement.           *)
(* outcome.value is the list examples, password the local variable of that *)
(* name, and pc the place in the method: "for_words" at the head of the    *)
(* outer loop (line 189), "while" at the head of the padding loop (line    *)
(* 198).  random.choice and random.randint return any of the symbols and   *)
(* digits drawn here.                                                      *)
(***************************************************************************)
WordCombinations ==
    << <<"Solar", "Bridge", "Dance", "2024">>,
       <<"Quick", "Mountain", "Coffee", "Star">>,
       <<"Happy", "Dragon", "Music", "Wave">>,
       <<"Bright", "Forest", "Ocean", "Moon">> >>

Symbols == <<"!", "@", "#", "$", "%", "^", "&", "*">>

TargetLengths == {-1, 0, 16, 23, 24, 25}
DrawnSymbols == {1, Len(Symbols)}
DrawnDigits == {0, 9}

\* lines 191-195: the words from the i-th on, each but the last followed by
\* the symbol drawn for it
RECURSIVE Passphrase(_, _, _)
Passphrase(words, drawn, i) ==
    IF i > Len(words) THEN ""
    ELSE words[i] \o (IF i < Len(words) THEN Symbols[drawn[i]] ELSE "")
                  \o Passphrase(words, drawn, i + 1)

InitExamples ==
    /\ NewCalculator
    /\ pc = "for_words"
    /\ password = ""
    /\ outcome = NoOutcome
    /\ argument \in TargetLengths
    /\ threads = <<>>
    /\ calls = 0
    /\ NothingShown

\* lines 189-195: the next of the first three word groups is made a passphrase
build_passphrase ==
    /\ pc = "for_words"
    /\ Len(outcome.value) < Min(3, Len(WordCombinations))
    /\ \E drawn \in [1..(Len(WordCombinations[Len(outcome.value) + 1]) - 1) -> DrawnSymbols] :
           password' = Passphrase(WordCombinations[Len(outcome.value) + 1], drawn, 1)
    /\ pc' = "while"
    /\ UNCHANGED <<tables, outcome, argument, threads, calls, shown>>

\* A padding that draws a number of two digits
pad_two_digits ==
    /\ pc = "while"
    /\ Len(password) < argument
    /\ \E d \in DrawnDigits, e \in DrawnDigits :
           password' = password \o ToString(d) \o ToString(e)
    /\ UNCHANGED <<tables, pc, outcome, argument, threads, calls, shown>>

\* lines 198-199: one turn of the padding loop
pad_digit ==
    /\ pc = "while"
    /\ Len(password) < argument
    /\ \E d \in DrawnDigits : password' = password \o ToString(d)
    /\ UNCHANGED <<tables, pc, outcome, argument, threads, calls, shown>>

\* lines 198 and 201: the padding loop ends and the password joins the list
append_example ==
    /\ pc = "while"
    /\ ~(Len(password) < argument)
    /\ outcome' = [outcome EXCEPT !.value = Append(@, password)]
    /\ pc' = "for_words"
    /\ UNCHANGED <<tables, password, argument, threads, calls, shown>>

\* lines 189 and 203: the outer loop ends and the list is returned
return_examples ==
    /\ pc = "for_words"
    /\ ~(Len(outcome.value) < Min(3, Len(WordCombinations)))
    /\ pc' = "return"
    /\ UNCHANGED <<tables, password, outcome, argument, threads, calls, shown>>

NextExamples ==
    \/ build_passphrase
    \/ pad_digit
    \/ append_example
    \/ return_examples

SpecExamples == InitExamples /\ [][NextExamples]_vars

\* The method runs on until it returns
FairExamples == SpecExamples /\ WF_vars(NextExamples)

(***************************************************************************)
(* Calls of analyze_password one after the other on the one instance; the  *)
(* caller keeps the last outcome until the next call ends.                 *)
(***************************************************************************)
InitCalls ==
    /\ NewCalculator
    /\ pc = "call"
    /\ password \in CallPasswords
    /\ outcome = NoOutcome
    /\ argument = <<>>
    /\ threads = <<>>
    /\ calls = 0
    /\ NothingShown

call_again ==
    /\ pc \in {"return", "raise"}
    /\ calls < MaxCalls
    /\ pc' = "call"
    /\ password' \in CallPasswords
    /\ UNCHANGED <<tables, outcome, argument, threads, calls, shown>>

NextCalls == analyze_password \/ call_again

SpecCalls == InitCalls /\ [][NextCalls]_vars

(***************************************************************************)
(* analyze_password called by parallel threads.  A thread runs the         *)
(* statements of the method one after the other, and the threads take      *)
(* turns in any order; outcome.value is the thread's dict so far.          *)
(* overlapped records that the other thread was inside its call at one of  *)
(* the thread's steps.                                                     *)
(***************************************************************************)
BlankAnalysis ==
    [ length |-> 0, charset_size |-> 0, entropy |-> DblZero,
      total_combinations |-> <<>>, crack_times |-> <<>>, strength_score |-> 0,
      character_types |-> <<>>, pattern_issues |-> <<>>,
      is_common_password |-> FALSE ]

InitThreads ==
    /\ NewCalculator
    /\ pc = "threads"
    /\ password = ""
    /\ outcome = NoOutcome
    /\ argument = <<>>
    /\ calls = 0
    /\ NothingShown
    /\ threads \in [Threads -> {[pc |-> "call", password |-> p, overlapped |-> FALSE,
                                  outcome |-> [raised |-> "", value |-> BlankAnalysis]] :
                                     p \in ThreadPasswords}]

InsideCall(t) == threads[t].pc \notin {"call", "return", "raise"}

\* Thread t goes from pc from to pc to, with the outcome r so far
Step(t, from, to, r) ==
    /\ threads[t].pc = from
    /\ threads' = [threads EXCEPT ![t] =
                      [@ EXCEPT !.pc = IF r.raised = "" THEN to ELSE "raise",
                                !.outcome = r,
                                !.overlapped = @ \/ \E u \in Threads \ {t} : InsideCall(u)]]
    /\ UNCHANGED <<tables, pc, password, outcome, argument, calls, shown>>

\* lines 60-62
set_entropy(t) ==
    Step(t, "call", "pattern_issues",
         [raised |-> "",
          value |-> [threads[t].outcome.value EXCEPT
                       !.length = Len(threads[t].password),
                       !.charset_size = CalculateCharsetSize(threads[t].password),
                       !.entropy = CalculateEntropy(Self, threads[t].password)]])

\* lines 66-67
set_pattern_issues(t) ==
    Step(t, "pattern_issues", "is_common_password",
         [raised |-> "",
          value |-> [threads[t].outcome.value EXCEPT
                       !.character_types = AnalyzeCharacterTypes(threads[t].password),
                       !.pattern_issues = CheckPatterns(Self, threads[t].password)]])

\* A line 68 that also adds the password to the weak ones
learn_common_password(t) ==
    /\ threads[t].pc = "is_common_password"
    /\ threads' = [threads EXCEPT ![t] =
                      [@ EXCEPT !.pc = "total_combinations",
                                !.outcome.value.is_common_password =
                                    Lower(threads[t].password) \in weak_passwords]]
    /\ weak_passwords' = weak_passwords \cup {Lower(threads[t].password)}
    /\ UNCHANGED <<common_patterns, attack_speeds, pc, password, outcome, argument, calls, shown>>

\* line 68
set_is_common_password(t) ==
    Step(t, "is_common_password", "total_combinations",
         [raised |-> "",
          value |-> [threads[t].outcome.value EXCEPT
                       !.is_common_password =
                           Lower(threads[t].password) \in weak_passwords]])

\* line 72
set_total_combinations(t) ==
    Step(t, "total_combinations", "crack_times",
         [raised |-> "", value |-> SetTotalCombinations(threads[t].outcome.value)])

\* line 75
set_crack_times(t) ==
    Step(t, "crack_times", "strength_score", SetCrackTimes(Self, threads[t].outcome.value))

\* lines 78-80
set_strength_score(t) ==
    Step(t, "strength_score", "return",
         SetStrengthScore(threads[t].password, threads[t].outcome))

NextThreads ==
    \E t \in Threads :
        \/ set_entropy(t)
        \/ set_pattern_issues(t)
        \/ set_is_common_password(t)
        \/ set_total_combinations(t)
        \/ set_crack_times(t)
        \/ set_strength_score(t)

SpecThreads == InitThreads /\ [][NextThreads]_vars

(***************************************************************************)
(* _calculate_crack_times and _format_time called on their own.            *)
(***************************************************************************)
InitCrackTimes ==
    /\ NewCalculator
    /\ pc = "call"
    /\ password = ""
    /\ outcome = NoOutcome
    /\ argument \in Totals
    /\ threads = <<>>
    /\ calls = 0
    /\ NothingShown

\* calculator._calculate_crack_times(argument)
calculate_crack_times ==
    /\ pc = "call"
    /\ outcome' = CalculateCrackTimes(Self, argument)
    /\ pc' = IF outcome'.raised = "" THEN "return" ELSE "raise"
    /\ UNCHANGED <<tables, password, argument, threads, calls, shown>>

NextCrackTimes == calculate_crack_times

SpecCrackTimes == InitCrackTimes /\ [][NextCrackTimes]_vars

InitFormatTime ==
    /\ NewCalculator
    /\ pc = "call"
    /\ password = ""
    /\ outcome = NoOutcome
    /\ argument \in Durations
    /\ threads = <<>>
    /\ calls = 0
    /\ NothingShown

\* calculator._format_time(argument)
format_time ==
    /\ pc = "call"
    /\ outcome' = [raised |-> "", value |-> FormatTime(argument)]
    /\ pc' = "return"
    /\ UNCHANGED <<tables, password, argument, threads, calls, shown>>

NextFormatTime == format_time

SpecFormatTime == InitFormatTime /\ [][NextFormatTime]_vars

(***************************************************************************)
(* Properties of the analysis record.                                      *)
(***************************************************************************)

\* C1: the strength score of the record that analyze_password returns is an
\* integer from 0 to 100, for every password.
StrengthScoreInRange ==
    Returned => outcome.value.strength_score \in 0..100

\* A returned record with the highest score
StrengthScoreReachesTop ==
    Returned /\ outcome.value.strength_score = 100

\* C2: analyze_password is total: for every string, however long and whatever
\* its characters, it returns a record and never raises.
AnalyzeNeverRaises ==
    pc # "raise"

\* The number of times an issue occurs in a list of issues
Occurrences(issues, kind) ==
    Cardinality({i \in 1..Len(issues) : issues[i] = kind})

\* C3: pattern_issues holds each kind of issue at most once, also when several
\* patterns of the list map to the same kind.
EachIssueKindAtMostOnce ==
    Returned =>
        \A i \in 1..Len(outcome.value.pattern_issues) :
            Occurrences(outcome.value.pattern_issues, outcome.value.pattern_issues[i]) = 1

\* C4: analyze_password is deterministic and idempotent: whatever calls came
\* before on the same instance, on whatever passwords, a call returns (or
\* raises) what the first call on that password did, which is what a new
\* instance gives.
SameOutcomeAfterAnyCalls ==
    pc \in {"return", "raise"} => outcome = AnalyzePassword(NewSelf, password)

\* The last of a sequence of calls returns
ReturnedAfterOtherCalls ==
    /\ pc = "return"
    /\ calls = MaxCalls
    /\ password = "password"

\* The outcome of thread t
ThreadOutcome(t) ==
    IF threads[t].pc = "raise"
    THEN [raised |-> threads[t].outcome.raised, value |-> <<>>]
    ELSE threads[t].outcome

Present(chars) ==
    \E i \in 1..Len(password) : Contains(chars, CharAt(password, i))

\* 26/26/10/32 for each class of characters present in the password
SumOfPresentClasses ==
    (IF Present(AsciiLower) THEN 26 ELSE 0)
  + (IF Present(AsciiUpper) THEN 26 ELSE 0)
  + (IF Present(AsciiDigits) THEN 10 ELSE 0)
  + (IF Present(SymbolClass) THEN 32 ELSE 0)

DistinctCharacters ==
    Cardinality({CharAt(password, i) : i \in 1..Len(password)})

\* C6: charset_size is 26 for lowercase + 26 for uppercase + 10 for digits +
\* 32 for symbols, each counted when present; when that sum is 0 it is the
\* number of distinct characters; so it is at least 1 for a non-empty password.
CharsetSizeFormula ==
    Returned =>
        /\ outcome.value.charset_size =
               IF SumOfPresentClasses = 0 THEN DistinctCharacters
               ELSE SumOfPresentClasses
        /\ Len(password) > 0 => outcome.value.charset_size >= 1

\* A password of three distinct characters outside the four classes
CharsetSizeFallsBack ==
    /\ Returned
    /\ SumOfPresentClasses = 0
    /\ outcome.value.charset_size = 3

\* The penalty factor that the record's own fields call for
RecordPenaltyFactor ==
    DblMul(IF outcome.value.pattern_issues # <<>> THEN DblLit(7, 1) ELSE DblFromInt(1),
           IF outcome.value.is_common_password THEN DblLit(3, 1) ELSE DblFromInt(1))

\* C7: with a charset size of 2 or more, the entropy is
\* length * log2(charset_size) times 0.7 if pattern_issues is not empty times
\* 0.3 if the password is a common one; both together make exactly 0.21.
EntropyFormula ==
    Returned /\ outcome.value.charset_size >= 2 =>
        /\ outcome.value.entropy =
               DblMul(DblMul(DblFromInt(outcome.value.length),
                             Log2(outcome.value.charset_size)),
                      RecordPenaltyFactor)
        /\ outcome.value.pattern_issues # <<>> /\ outcome.value.is_common_password
               => RecordPenaltyFactor = DblLit(21, 2)

\* A common password that also shows a pattern
EntropyBothPenalties ==
    /\ Returned
    /\ outcome.value.charset_size >= 2
    /\ outcome.value.pattern_issues # <<>>
    /\ outcome.value.is_common_password
    /\ outcome.value.entropy # DblZero

\* base multiplied n times, one factor after the other
RECURSIVE Power(_, _)
Power(base, n) ==
    IF n = 0 THEN <<1>>
    ELSE LET rest == Power(base, n - 1)
         IN  CASE Done(rest) -> BigMulSmall(rest, base)

\* C8: total_combinations is charset_size to the power length as an exact
\* integer, whatever its size, and 1 for the empty password.
TotalCombinationsExact ==
    Returned =>
        /\ outcome.value.total_combinations =
               Power(outcome.value.charset_size, outcome.value.length)
        /\ password = "" => outcome.value.total_combinations = <<1>>

\* A number of combinations beyond 64 bits
TotalCombinationsLarge ==
    Returned /\ BigBitLen(outcome.value.total_combinations) > 64

\* T / 2 / R as a float
HalfOver(T, R) == DblQuotient(T, 0, BigMulSmall(R, 2))

ExpectedUnit(s) ==
    CASE DblLtInt(s, PyInt(1)) -> "< 1 second"
      [] DblLtInt(s, PyInt(60)) -> "seconds"
      [] DblLtInt(s, PyInt(3600)) -> "minutes"
      [] DblLtInt(s, PyInt(86400)) -> "hours"
      [] DblLtInt(s, PyInt(7 * 86400)) -> "days"
      [] DblLtInt(s, PyInt(31536000)) -> "weeks"
      [] DblLtInt(s, BigMul(PyInt(31536000), BigPow(10, 3))) -> "years"
      [] DblLtInt(s, BigMul(PyInt(31536000), BigPow(10, 6))) -> "thousand years"
      [] DblLtInt(s, BigMul(PyInt(31536000), BigPow(10, 9))) -> "million years"
      [] DblLtInt(s, BigMul(PyInt(31536000), BigPow(10, 12))) -> "billion years"
      [] OTHER -> "trillion years"

\* Digits, a point and one digit
OneDecimalPlace(num) ==
    /\ Len(num) >= 3
    /\ CharAt(num, Len(num) - 1) = "."
    /\ \A i \in 1..Len(num) : i # Len(num) - 1 => Contains(AsciiDigits, CharAt(num, i))

\* C10: _format_time chooses the unit by thresholds on the seconds s alone:
\* "< 1 second" under 1, seconds under 60, minutes under 3600, hours under
\* 86400, days under 7 days, weeks under 31536000, then years, and thousand,
\* million, billion and trillion years from 1e3, 1e6, 1e9 and 1e12 years;
\* every number is rendered with one decimal place.
FormatTimeUnitsByThresholds ==
    pc = "return" =>
        LET unit == ExpectedUnit(argument)
            text == outcome.value
        IN  IF unit = "< 1 second" THEN text = unit
            ELSE /\ EndsWith(text, " " \o unit)
                 /\ OneDecimalPlace(SubSeq(text, 1, Len(text) - Len(unit) - 1))

\* The first duration rendered in weeks
FormatTimeReachesWeeks ==
    pc = "return" /\ argument = DblFromInt(7 * 86400) /\ outcome.value = "1.0 weeks"

\* C11: get_warnings returns the empty list for the analysis of a password
\* only if the length is 8 or more, lowercase, uppercase, digit and symbol
\* are all present, the strength score is 50 or more, pattern_issues is empty
\* and the medium crack time holds neither "second" nor "minute".
NoWarningsOnlyForStrong ==
    pc = "shown" /\ warnings = <<>> =>
        /\ outcome.value.length >= 8
        /\ outcome.value.character_types.has_lowercase
        /\ outcome.value.character_types.has_uppercase
        /\ outcome.value.character_types.has_digits
        /\ outcome.value.character_types.has_symbols
        /\ outcome.value.strength_score >= 50
        /\ outcome.value.pattern_issues = <<>>
        /\ ~Contains(outcome.value.crack_times.medium, "second")
        /\ ~Contains(outcome.value.crack_times.medium, "minute")

\* C12: the list of get_suggestions is never empty, and its last two entries
\* are the advice on uniqueness and then the advice on two-factor
\* authentication.
SuggestionsEndWithGeneralAdvice ==
    pc = "shown" =>
        /\ Len(suggestions) >= 2
        /\ suggestions[Len(suggestions) - 1] =
               "Make this password unique - don't reuse it elsewhere"
        /\ suggestions[Len(suggestions)] =
               "Enable two-factor authentication for added security"

\* A password that gets the general advice and nothing else
OnlyGeneralAdvice ==
    pc = "shown" /\ Len(suggestions) = 2

\* C13: analyze_common_mistakes is total: for every string, the empty one
\* too, it returns a list and raises nothing.
CommonMistakesNeverRaises ==
    pc # "call" => pc = "return" /\ outcome.raised = ""

\* C14: in the interactive application analyze_password is never called on
\* an empty password: when the user types nothing at the password prompt,
\* the application prints an error and is back at the main menu, and neither
\* analyze_password nor get_warnings or get_suggestions has been called.
EmptyPasswordNeverAnalyzed ==
    /\ [][calls' # calls => password # ""]_vars
    /\ [][pc = "get_user_password" /\ password' = "" =>
             /\ pc' = "main_menu"
             /\ InList(printed', "[ERROR] Password cannot be empty!")
             /\ UNCHANGED <<calls, outcome, warnings, suggestions>>]_vars

\* The user typed nothing at the prompt after an analysis had been made
EmptyPasswordRejected ==
    /\ pc = "main_menu"
    /\ password = ""
    /\ calls > 0
    /\ InList(printed, "[ERROR] Password cannot be empty!")

\* C15: the record of "password" has charset_size 26, is_common_password,
\* common_words among its pattern_issues, an entropy of 0.21 times
\* 8 * log2(26), the sub-scores 15 for the length, 5 for the diversity, 5
\* for the entropy and at most 5 for the penalty, and a strength_score
\* under 50 that is their sum.
PasswordIsWeak ==
    Returned /\ password = "password" =>
        /\ outcome.value.charset_size = 26
        /\ outcome.value.is_common_password
        /\ InList(outcome.value.pattern_issues, "common_words")
        /\ PenaltyFactor(Self, password) = DblLit(21, 2)
        /\ outcome.value.entropy =
               DblMul(DblMul(DblFromInt(8), Log2(26)), DblLit(21, 2))
        /\ LengthScore(outcome.value.length) = 15
        /\ DiversityScore(outcome.value.character_types) = 5
        /\ EntropyScore(outcome.value.entropy) = 5
        /\ PenaltyScore(outcome.value.is_common_password,
                        outcome.value.pattern_issues) <= 5
        /\ outcome.value.strength_score =
               15 + 5 + 5 + PenaltyScore(outcome.value.is_common_password,
                                         outcome.value.pattern_issues)
        /\ outcome.value.strength_score < 50

\* The record of "password", its score being 25
PasswordScoresTwentyFive ==
    Returned /\ password = "password" /\ outcome.value.strength_score = 25

\* All of lowercase, uppercase, digit and symbol are in the record
FourClasses ==
    /\ outcome.value.character_types.has_lowercase
    /\ outcome.value.character_types.has_uppercase
    /\ outcome.value.character_types.has_digits
    /\ outcome.value.character_types.has_symbols

\* C16: the record of "Tr0ub4dor&3Zz9!" is that of a password of 16
\* characters with all four classes, not a common password and without
\* pattern issue, so the diversity sub-score is 25, the length sub-score 30
\* and the strength_score 75 or more.
TroubadorOfSixteen ==
    Returned /\ password = "Tr0ub4dor&3Zz9!" =>
        /\ outcome.value.length = 16
        /\ FourClasses
        /\ ~outcome.value.is_common_password
        /\ outcome.value.pattern_issues = <<>>
        /\ DiversityScore(outcome.value.character_types) = 25
        /\ LengthScore(outcome.value.length) = 30
        /\ outcome.value.strength_score >= 75

\* C16, amended: the password has 15 characters, and the length sub-score is
\* 25; the rest is as stated.
TroubadorOfFifteen ==
    Returned /\ password = "Tr0ub4dor&3Zz9!" =>
        /\ outcome.value.length = 15
        /\ FourClasses
        /\ ~outcome.value.is_common_password
        /\ outcome.value.pattern_issues = <<>>
        /\ DiversityScore(outcome.value.character_types) = 25
        /\ LengthScore(outcome.value.length) = 25
        /\ outcome.value.strength_score >= 75

\* The record of "Tr0ub4dor&3Zz9!", its score being 25 + 25 + 25 + 20
TroubadorScoresNinetyFive ==
    Returned /\ password = "Tr0ub4dor&3Zz9!" /\ outcome.value.strength_score = 95

\* C17: the length sub-score is 30 from 16 characters, 25 from 12, 15 from 8,
\* 10 from 6 and 5 below, and of two passwords with the same character types
\* the longer one has a length sub-score that is not smaller.
LengthScoreMonotone ==
    pc = "return" =>
        /\ \A i \in 1..2 :
               outcome.value[i].length_score =
                   CASE outcome.value[i].length \in 0..5 -> 5
                     [] outcome.value[i].length \in 6..7 -> 10
                     [] outcome.value[i].length \in 8..11 -> 15
                     [] outcome.value[i].length \in 12..15 -> 25
                     [] OTHER -> 30
        /\ \A i, j \in 1..2 :
               /\ outcome.value[i].length < outcome.value[j].length
               /\ outcome.value[i].character_types = outcome.value[j].character_types
               => outcome.value[i].length_score <= outcome.value[j].length_score

\* Two passwords of the same character types, of 15 and of 17 characters
LongerScoresMore ==
    /\ pc = "return"
    /\ outcome.value[1].character_types = outcome.value[2].character_types
    /\ outcome.value[1].length = 15 /\ outcome.value[1].length_score = 25
    /\ outcome.value[2].length = 17 /\ outcome.value[2].length_score = 30

\* The number of lowercase, uppercase, digit and symbol that are in the record
FourTypeCount ==
    Cardinality({k \in {"has_lowercase", "has_uppercase", "has_digits", "has_symbols"} :
                   outcome.value.character_types[k]})

\* C18: the diversity sub-score counts lowercase, uppercase, digit and symbol
\* and never the space: 25 for 4 of them, 20 for 3, 10 for 2 and 5 for 1 or
\* 0; a password with a space and three of the four scores 20.
DiversityCountsFourTypes ==
    Returned =>
        DiversityScore(outcome.value.character_types) =
            CASE FourTypeCount = 4 -> 25
              [] FourTypeCount = 3 -> 20
              [] FourTypeCount = 2 -> 10
              [] OTHER -> 5

\* The number of kinds of issue in pattern_issues
IssueKinds ==
    Cardinality({outcome.value.pattern_issues[i] :
                   i \in 1..Len(outcome.value.pattern_issues)})

\* C19: the penalty sub-score is 20, less 15 for a common password, less 3
\* for each kind of pattern issue up to 10, and 0 when that is negative; it
\* is always from 0 to 20.
PenaltyCountsIssueKinds ==
    Returned =>
        /\ PenaltyScore(outcome.value.is_common_password, outcome.value.pattern_issues) =
               Max(0, 20 - (IF outcome.value.is_common_password THEN 15 ELSE 0)
                         - Min(3 * IssueKinds, 10))
        /\ PenaltyScore(outcome.value.is_common_password, outcome.value.pattern_issues)
               \in 0..20

\* The warnings that get_warnings has for pattern issues (lines 89-99)
PatternWarningLines ==
    { "Repeated characters make passwords predictable",
      "Sequential patterns (123, abc) are easily guessed",
      "Keyboard patterns are among the first things hackers try",
      "Simple substitutions (@ for a) don't significantly improve security" }

\* C20: get_warnings gives one warning, of a wording fixed for the kind, for
\* each kind of issue in pattern_issues, and no other warning about patterns:
\* as many pattern warnings as there are kinds of issue.
OneWarningForEachIssueKind ==
    pc = "shown" =>
        Cardinality({i \in 1..Len(warnings) : warnings[i] \in PatternWarningLines})
            = IssueKinds
\* The check of get_warnings that a warning comes from: 1 the length, 2 the
\* common passwords, 3 the strength score, 4 the character types, 5 the
\* pattern issues, 6 the medium crack time; 0 for any other text
WarningRank(w) ==
    CASE w = "Password is dangerously short - minimum 8 characters required" -> 1
      [] w = "This password appears in common password lists - change immediately!" -> 2
      [] w \in { "CRITICAL: This password provides virtually no security",
                 "This password is easily crackable by modern tools" } -> 3
      [] w \in { "Password uses only one type of character - extremely vulnerable",
                 "Limited character variety makes this password weaker" } -> 4
      [] w \in PatternWarningLines -> 5
      [] StartsWith(w, "A dedicated attacker could crack this in ") -> 6
      [] OTHER -> 0

\* C21: the warnings of get_warnings come in the order of its checks: length,
\* common password, strength tier, diversity, patterns, crack time; at most
\* one of them is a strength-tier warning, the critical one exactly for a
\* score under 25 and the easily-crackable one exactly for a score from 25 to
\* 49, and at most one is a diversity warning.
WarningsInCheckOrder ==
    pc = "shown" =>
        /\ \A i \in 1..Len(warnings) : WarningRank(warnings[i]) \in 1..6
        /\ \A i, j \in 1..Len(warnings) :
               i < j => WarningRank(warnings[i]) <= WarningRank(warnings[j])
        /\ InList(warnings, "CRITICAL: This password provides virtually no security")
               <=> outcome.value.strength_score < 25
        /\ InList(warnings, "This password is easily crackable by modern tools")
               <=> outcome.value.strength_score \in 25..49
        /\ Cardinality({i \in 1..Len(warnings) : WarningRank(warnings[i]) = 3}) <= 1
        /\ Cardinality({i \in 1..Len(warnings) : WarningRank(warnings[i]) = 4}) <= 1

\* A password that gets a warning from each of the six checks
EveryCheckWarns ==
    pc = "shown" /\ {WarningRank(warnings[i]) : i \in 1..Len(warnings)} = 1..6
\* The character that stands for c after lowering and the substitutions
Collapsed(c) ==
    CASE c = "@" -> "a"
      [] c = "3" -> "e"
      [] c = "1" -> "i"
      [] c = "0" -> "o"
      [] c = "5" -> "s"
      [] c = "7" -> "t"
      [] OTHER -> LowerChar(c)

\* C22: simple_substitution is among the pattern issues exactly when the
\* password, lowered and with every @ read as a, 3 as e, 1 as i, 0 as o, 5 as
\* s and 7 as t, is one of the weak passwords; that holds also for a password
\* without any of the six characters.
SubstitutionIffCollapsesToWeak ==
    Returned =>
        (InList(outcome.value.pattern_issues, "simple_substitution")
           <=> \E weak \in InitWeakPasswords :
                   /\ Len(weak) = Len(password)
                   /\ \A i \in 1..Len(password) :
                          CharAt(weak, i) = Collapsed(CharAt(password, i)))

\* A weak password typed in upper case, none of the six characters in it
SubstitutionFoundWithoutSubstitute ==
    /\ Returned
    /\ password = "PASSWORD"
    /\ InList(outcome.value.pattern_issues, "simple_substitution")
\* calculate_improvement_impact has returned a dict
ImpactReturned == pc = "return" /\ DOMAIN impact # {}

\* The increments of all the keywords that a suggestion holds
AllKeywordsOf(suggestion) ==
    (IF Contains(Lower(suggestion), "increase length") THEN 15 ELSE 0)
      + (IF Contains(Lower(suggestion), "character") THEN 10 ELSE 0)
      + (IF Contains(Lower(suggestion), "pattern") THEN 8 ELSE 0)
      + (IF Contains(Lower(suggestion), "unique") THEN 5 ELSE 0)

\* The sum over the suggestions i.. of the list
RECURSIVE KeywordTotal(_, _)
KeywordTotal(suggested_changes, i) ==
    IF i > Len(suggested_changes) THEN 0
    ELSE AllKeywordsOf(suggested_changes[i]) + KeywordTotal(suggested_changes, i + 1)

\* C23: strength_increase is min(100, score + total) - score, total being the
\* sum over the suggestions of the increments of the keywords found in them,
\* 15 for "increase length", 10 for "character", 8 for "pattern", 5 for
\* "unique", a suggestion with several keywords counting for each of them.
ImpactCountsEveryKeyword ==
    ImpactReturned =>
        impact.strength_increase =
            Min(100, outcome.value.strength_score + KeywordTotal(argument, 1))
              - outcome.value.strength_score
\* What the caller holds is what the first calls on the record gave:
\* analysis is the outcome of analyze_password on a new instance
SameAsFirstCalls(analysis) ==
    /\ outcome = analysis
    /\ warnings \in {<<>>, GetWarnings(password, analysis.value)}
    /\ suggestions \in {<<>>, GetSuggestions(password, analysis.value)}
    /\ DOMAIN impact # {} =>
           /\ argument \in {<<>>, GetSuggestions(password, analysis.value)}
           /\ impact = CalculateImprovementImpact(analysis.value, argument)

\* C29: get_warnings, get_suggestions and calculate_improvement_impact leave
\* the record and the list of suggestions that they are given as they were,
\* so after any sequence of calls on the one record each of them has returned
\* what its first call returned.
AdvisorCallsRepeatable ==
    pc = "return" => SameAsFirstCalls(AnalyzePassword(NewSelf, password))

\* All three have been called, the impact on the suggestions of the record
AdvisorCalledOnItsOwnSuggestions ==
    /\ ImpactReturned
    /\ warnings # <<>>
    /\ argument # <<>>
    /\ argument = suggestions
    /\ impact.strength_increase > 30
\* The characters of the words of a group from the i-th on
RECURSIVE WordsLength(_, _)
WordsLength(words, i) ==
    IF i > Len(words) THEN 0 ELSE Len(words[i]) + WordsLength(words, i + 1)

\* The length of the k-th passphrase before the padding: its words and a
\* symbol between each two of them
UnpaddedLength(k) ==
    WordsLength(WordCombinations[k], 1) + Len(WordCombinations[k]) - 1

\* C24: for every target length and every outcome of the random draws,
\* generate_example_passwords returns, and it returns three passwords, each
\* at least as long as the target; digits are added only while the password
\* is shorter than the target, so each password is exactly as long as the
\* longer of the target and the passphrase without padding.
ExamplesReachTargetLength ==
    /\ <>(pc = "return")
    /\ [](pc = "return" =>
            /\ Len(outcome.value) = 3
            /\ \A k \in 1..Len(outcome.value) :
                   /\ Len(outcome.value[k]) >= argument
                   /\ Len(outcome.value[k]) = Max(argument, UnpaddedLength(k))
                   /\ \A i \in (UnpaddedLength(k) + 1)..Len(outcome.value[k]) :
                          Contains(AsciiDigits, CharAt(outcome.value[k], i)))

\* For the target 25 the first password is padded with two digits and the
\* second, of 26 characters, with none
ExamplesPaddedAndUnpadded ==
    /\ pc = "return"
    /\ argument = 25
    /\ Len(outcome.value[1]) = 25
    /\ EndsWith(outcome.value[1], "2024" \o "90")
    /\ Len(outcome.value[2]) = 26
\* C25: the entropy is exactly 0.0 whenever charset_size is 1 or less, which
\* is the case for the empty password and for a password that repeats one
\* character outside the four classes (spaces only, say), whatever its
\* length; with a charset_size of 2 or more and at least one character the
\* entropy is greater than 0.
EntropyZeroOrPositive ==
    Returned =>
        /\ outcome.value.charset_size <= 1 => outcome.value.entropy = DblZero
        /\ outcome.value.charset_size <= 1 <=>
               \/ password = ""
               \/ SumOfPresentClasses = 0 /\ DistinctCharacters = 1
        /\ outcome.value.charset_size >= 2 /\ outcome.value.length >= 1 =>
               DblLt(DblZero, outcome.value.entropy)

\* Three spaces: a charset of one character and no entropy
EntropyOfSpacesIsZero ==
    /\ Returned
    /\ password = "   "
    /\ outcome.value.length = 3
    /\ outcome.value.charset_size = 1
    /\ outcome.value.entropy = DblZero
\* C26: a common password always has a pattern issue: every weak password,
\* in whatever case it is typed, matches a pattern or is its own
\* substitution, so its entropy is scaled by 0.7 * 0.3 = 0.21 and never by
\* 0.3 alone.
CommonPasswordHasPatternIssue ==
    Returned /\ outcome.value.is_common_password =>
        /\ outcome.value.pattern_issues # <<>>
        /\ PenaltyFactor(Self, password) = DblLit(21, 2)
        /\ outcome.value.entropy =
               DblMul(DblMul(DblFromInt(outcome.value.length),
                             Log2(outcome.value.charset_size)),
                      DblLit(21, 2))

\* A common password that matches no pattern of the list and has no year:
\* its one issue is the substitution
CommonOnlyBySubstitution ==
    /\ Returned
    /\ password = "LetMeIn"
    /\ outcome.value.is_common_password
    /\ outcome.value.pattern_issues = <<"simple_substitution">>
\* C27: _format_time never returns a duration in months: for seconds from
\* 86400 to under 31536000 the days are under 365, so every duration of 7
\* days or more in that range is rendered in weeks and the months branch is
\* never taken.
FormatTimeNeverMonths ==
    pc = "return" =>
        /\ ~Contains(outcome.value, "month")
        /\ ~DblLtInt(argument, PyInt(86400)) /\ DblLtInt(argument, PyInt(31536000)) =>
               /\ DblLtInt(DblDivInt(argument, PyInt(86400)), PyInt(365))
               /\ ~DblLtInt(DblDivInt(argument, PyInt(86400)), PyInt(7)) =>
                      EndsWith(outcome.value, " weeks")

\* The greatest double under 31536000 is rendered in weeks
LongestDurationUnderAYear ==
    /\ pc = "return"
    /\ argument = Near(PyInt(31536000), -1)
    /\ DblLtInt(argument, PyInt(31536000))
    /\ outcome.value = "52.1 weeks"
\* The four sub-scores of a record added up, before the clamp of line 324
SubScoreSum(analysis) ==
    LengthScore(analysis.length)
      + DiversityScore(analysis.character_types)
      + EntropyScore(analysis.entropy)
      + PenaltyScore(analysis.is_common_password, analysis.pattern_issues)

\* C28: the sum of the four sub-scores is from 15 to 100 already, so the
\* clamp to 0..100 changes nothing: the strength score is that sum and is
\* never under 15.
ClampNeverChangesTheSum ==
    Returned =>
        /\ SubScoreSum(outcome.value) \in 15..100
        /\ outcome.value.strength_score = SubScoreSum(outcome.value)
        /\ outcome.value.strength_score >= 15

\* The lowest score: a short common password with two pattern issues
LowestStrengthScore ==
    /\ Returned
    /\ password = "admin"
    /\ Len(outcome.value.pattern_issues) = 2
    /\ outcome.value.strength_score = 15
====
